---- MODULE Spec2Model ----
(***************************************************************************)
(* Model of the recurrence engine (isRecurrenceInRange) and of the         *)
(* list_events filter of lark-mcp-server.                                  *)
(*                                                                         *)
(* Time is counted in seconds since the epoch, as in the source.  The      *)
(* model's clock is scaled down: a "day" (the period of FREQ=DAILY) is     *)
(* Day seconds long and every instant lies in 0..MaxTime.                  *)
(*                                                                         *)
(* A rule text is a sequence of tokens: the optional prefix token "RRULE:" *)
(* followed by the ";"-separated parts of the rule ("FREQ=DAILY",          *)
(* "COUNT=2", ...).  The empty sequence is the empty string.               *)
(***************************************************************************)
EXTENDS Integers, Sequences, FiniteSets, TLC

VARIABLES
    phase,           \* "ready": inputs chosen, nothing called; "done": the call returned or threw
    recurrenceRule,  \* engine input: the rule text
    eventTime,       \* engine input: [startTime, endTime]
    checkRange,      \* engine input: [startTime, endTime]
    outcome,         \* engine output: [ret, escaped] and what the call went through
    console,         \* diagnostic channel (console.error), a sequence of messages
    items,           \* list_events: result.data.items of the upstream calendar service
    upstream,        \* list_events: how the upstream call ended
    startUnix,       \* list_events: requested window start
    endUnix,         \* list_events: requested window end
    response,        \* list_events: what the handler produced
    request,         \* tool call: the tool, its arguments and how the services will answer
    calls,           \* outbound calls made so far, in order
    reply,           \* tool call: the text handed back, or the exception that left the handler
    env,             \* startup: the environment variables that hold a non-empty value
    stage,           \* startup: where the process is
    exitCode         \* startup: argument of process.exit, Undefined while the process lives

vars == <<phase, recurrenceRule, eventTime, checkRange, outcome, console,
          items, upstream, startUnix, endUnix, response,
          request, calls, reply, env, stage, exitCode>>

----------------------------------------------------------------------------
(* Bounds of the model *)

MaxTime == 4

Day == 2

MaxStamp == 2

MaxBatch == 2

(* new Date(seconds * 1000) / Math.floor(getTime() / 1000) *)
MsPerSec == 1000

Times == 0 .. MaxTime

TimeRanges == [startTime : Times, endTime : Times]

----------------------------------------------------------------------------
(* Rule texts *)

Prefix == "RRULE:"

RuleTexts ==
    { <<>>,
      <<"FREQ=DAILY">>,
      <<"RRULE:", "FREQ=DAILY">>,
      <<"FREQ=DAILY", "COUNT=1">>,
      <<"FREQ=DAILY", "COUNT=2">>,
      <<"FREQ=DAILY", "INTERVAL=2">>,
      <<"RRULE:", "FREQ=DAILY", "UNTIL=1">>,
      <<"FREQ=DAILY", "UNTIL=3">>,
      <<"FREQ=BOGUS">>,
      <<"RRULE:", "FOO=BAR">>,
      <<"FREQ=DAILY", "FOO=BAR">> }

(* the parts the rule grammar knows, and the value each carries *)
KnownParts == {"FREQ=DAILY", "COUNT=1", "COUNT=2", "INTERVAL=2", "UNTIL=1", "UNTIL=3"}

PartKey(p) ==
    CASE p = "FREQ=DAILY" -> "FREQ"
      [] p \in {"COUNT=1", "COUNT=2"} -> "COUNT"
      [] p = "INTERVAL=2" -> "INTERVAL"
      [] p \in {"UNTIL=1", "UNTIL=3"} -> "UNTIL"
      [] OTHER -> "?"

PartValue(p) ==
    CASE p \in {"COUNT=1", "UNTIL=1"} -> 1
      [] p \in {"COUNT=2", "INTERVAL=2"} -> 2
      [] p = "UNTIL=3" -> 3
      [] OTHER -> 0

(* String.prototype.startsWith('RRULE:') *)
startsWith(text, tok) == Len(text) > 0 /\ text[1] = tok

(* variant: the prefix added without looking at the text *)
rruleStringAlways(text) == <<Prefix>> \o text

(* recurrenceRule.startsWith('RRULE:') ? recurrenceRule : `RRULE:${recurrenceRule}` *)
rruleString(text) == IF startsWith(text, Prefix) THEN text ELSE <<Prefix>> \o text

----------------------------------------------------------------------------
(* The rule evaluator (rrule): rrulestr and RRule.between *)

NoLimit == 0 - 1

(* the value of the part with key k, or dflt when the text has no such part *)
Param(parts, k, dflt) ==
    IF \E i \in 1 .. Len(parts) : PartKey(parts[i]) = k
    THEN PartValue(parts[CHOOSE i \in 1 .. Len(parts) : PartKey(parts[i]) = k])
    ELSE dflt

(* rrulestr(text, {dtstart}): throws on text outside the grammar,
   otherwise yields the rule anchored at dtstart (a Date, in ms) *)
rrulestr(text, dtstart) ==
    IF /\ startsWith(text, Prefix)
       /\ Len(text) > 1
       /\ \A i \in 2 .. Len(text) : text[i] \in KnownParts
    THEN LET parts == Tail(text)
         IN  [threw    |-> FALSE,
              dtstart  |-> dtstart,
              interval |-> Param(parts, "INTERVAL", 1),
              count    |-> Param(parts, "COUNT", NoLimit),
              until    |-> IF Param(parts, "UNTIL", NoLimit) = NoLimit
                           THEN NoLimit
                           ELSE Param(parts, "UNTIL", NoLimit) * MsPerSec]
    ELSE [threw |-> TRUE, dtstart |-> dtstart, interval |-> 1,
          count |-> NoLimit, until |-> NoLimit]

(* the k-th occurrence (k = 0, 1, ...) of a rule, in ms *)
Occurrence(rule, k) == rule.dtstart + k * rule.interval * Day * MsPerSec

(* variant: COUNT stops one occurrence early *)
PermittedOneLess(rule, k) ==
    /\ rule.count = NoLimit \/ k + 1 < rule.count
    /\ rule.until = NoLimit \/ rule.dtstart + k * rule.interval * Day * MsPerSec <= rule.until

(* variant: the rule's COUNT / UNTIL limits are not applied *)
PermittedAlways(rule, k) == TRUE

(* is the k-th occurrence within the rule's own COUNT / UNTIL limits *)
Permitted(rule, k) ==
    /\ rule.count = NoLimit \/ k < rule.count
    /\ rule.until = NoLimit \/ Occurrence(rule, k) <= rule.until

RECURSIVE SortedSeq(_)
SortedSeq(S) ==
    IF S = {} THEN <<>>
    ELSE LET m == CHOOSE x \in S : \A y \in S : x <= y
         IN  <<m>> \o SortedSeq(S \ {m})

(* rule.between(after, before, inc): the occurrences t with after <= t <= before
   (inc = true) or after < t < before (inc = false), in ascending order *)
between(rule, after, before, inc) ==
    LET last == IF before < rule.dtstart THEN 0 - 1
                ELSE (before - rule.dtstart) \div (rule.interval * Day * MsPerSec)
        occ  == { Occurrence(rule, k) : k \in { j \in 0 .. last : Permitted(rule, j) } }
    IN  SortedSeq({ t \in occ : IF inc THEN after <= t /\ t <= before
                                       ELSE after < t /\ t < before })

----------------------------------------------------------------------------
(* isRecurrenceInRange *)

(* new Date(seconds * 1000) *)
ToDate(seconds) == seconds * MsPerSec

(* Math.floor(date.getTime() / 1000) *)
ToSeconds(date) == date \div MsPerSec

(* the three clauses of the callback given to occurrences.some *)
Overlaps(occurrenceStart, occurrenceEnd, range) ==
    \/ occurrenceStart >= range.startTime /\ occurrenceStart <= range.endTime
    \/ occurrenceEnd >= range.startTime /\ occurrenceEnd <= range.endTime
    \/ occurrenceStart <= range.startTime /\ occurrenceEnd >= range.endTime

(* variant: the window bounds taken exclusive *)
OccurrencesAskedExclusive(rule, checkStart, checkEnd) ==
    between(rule, checkStart, checkEnd, FALSE)

(* variant: every occurrence from the anchor up to the window end is asked for *)
OccurrencesAskedFromAnchor(rule, checkStart, checkEnd) ==
    between(rule, rule.dtstart, checkEnd, TRUE)

(* the occurrences the engine asks the rule evaluator for *)
OccurrencesAsked(rule, checkStart, checkEnd) == between(rule, checkStart, checkEnd, TRUE)

(* variant: no early return on an empty rule *)
EmptyRuleUnguarded(rule) == FALSE

(* !recurrenceRule: the empty string is falsy *)
EmptyRule(rule) == rule = <<>>

(* variant: the rule anchored at the window start *)
AnchorAtWindowStart(evt, range) == ToDate(range.startTime)

(* dtstart: eventStart, the event's own start instant *)
Anchor(evt, range) == ToDate(evt.startTime)

(* the body of the try block: [threw, ret], whether it reached the parser
   (rrulestr) and the generator (between), the text it handed to the parser
   and the number of occurrences the generator returned *)
TryBody(rule, evt, range) ==
    IF EmptyRule(rule)
    THEN [threw |-> FALSE, ret |-> FALSE, parsed |-> FALSE, asked |-> FALSE,
          normalized |-> <<>>, generated |-> 0]
    ELSE LET eventDuration == evt.endTime - evt.startTime
             eventStart    == Anchor(evt, range)
             checkStart    == ToDate(range.startTime)
             checkEnd      == ToDate(range.endTime)
             parsedRule    == rrulestr(rruleString(rule), eventStart)
         IN  IF parsedRule.threw
             THEN [threw |-> TRUE, ret |-> FALSE, parsed |-> TRUE, asked |-> FALSE,
                   normalized |-> rruleString(rule), generated |-> 0]
             ELSE LET occurrences == OccurrencesAsked(parsedRule, checkStart, checkEnd)
                  IN  [threw |-> FALSE, parsed |-> TRUE, asked |-> TRUE,
                       normalized |-> rruleString(rule),
                       generated  |-> Len(occurrences),
                       ret   |-> \E i \in 1 .. Len(occurrences) :
                                    LET occurrenceStart == ToSeconds(occurrences[i])
                                        occurrenceEnd   == occurrenceStart + eventDuration
                                    IN  Overlaps(occurrenceStart, occurrenceEnd, range)]

ErrorMessage == "Error checking recurrence:"

(* variant: no catch clause, the exception leaves the function *)
CatchRethrows(body) ==
    [ret |-> body.ret, escaped |-> body.threw, log |-> <<>>,
     parsed |-> body.parsed, asked |-> body.asked,
     normalized |-> body.normalized, generated |-> body.generated]

(* variant: the catch clause answers true *)
CatchReturnsTrue(body) ==
    [ret |-> body.threw \/ body.ret, escaped |-> FALSE,
     log |-> IF body.threw THEN <<ErrorMessage>> ELSE <<>>,
     parsed |-> body.parsed, asked |-> body.asked,
     normalized |-> body.normalized, generated |-> body.generated]

(* the catch clause: log and return false.  [ret, escaped, log] and the
   flags of the body *)
Catch(body) ==
    IF body.threw
    THEN [ret |-> FALSE, escaped |-> FALSE, log |-> <<ErrorMessage>>,
          parsed |-> body.parsed, asked |-> body.asked,
          normalized |-> body.normalized, generated |-> body.generated]
    ELSE [ret |-> body.ret, escaped |-> FALSE, log |-> <<>>,
          parsed |-> body.parsed, asked |-> body.asked,
          normalized |-> body.normalized, generated |-> body.generated]

isRecurrenceInRange(rule, evt, range) == Catch(TryBody(rule, evt, range))

----------------------------------------------------------------------------
(* list_events: the upstream records and the filter *)

(* a timestamp the upstream record does not carry (event.start_time?.timestamp
   is undefined) *)
Undefined == 0 - 1

Stamps == 0 .. MaxStamp

Statuses == {"confirmed", "cancelled"}

(* the rule texts the upstream records carry *)
RecordRules ==
    { <<>>, <<"FREQ=DAILY">>, <<"FREQ=DAILY", "COUNT=1">>,
      <<"RRULE:", "FREQ=DAILY", "UNTIL=1">>, <<"FREQ=BOGUS">> }

(* an upstream record: has_recurrence = FALSE is a record without the
   recurrence field *)
EventRecords ==
    [status : Statuses,
     start_time : Stamps \cup {Undefined},
     end_time : Stamps \cup {Undefined},
     has_recurrence : {TRUE},
     recurrence : RecordRules]
    \cup
    [status : Statuses,
     start_time : Stamps \cup {Undefined},
     end_time : Stamps \cup {Undefined},
     has_recurrence : {FALSE},
     recurrence : {<<>>}]

(* parseInt(timestamp || "0") *)
StampOrZero(ts) == IF ts = Undefined THEN 0 ELSE ts

(* event.recurrence || "" *)
RuleOrEmpty(event) == IF event.has_recurrence THEN event.recurrence ELSE <<>>

(* event.recurrence !== "" : true of an absent field too *)
RecurrenceNotEmptyString(event) == ~(event.has_recurrence /\ event.recurrence = <<>>)

(* variant: the status is not looked at *)
NotCancelledAny(event) == TRUE

(* event.status !== "cancelled" *)
NotCancelled(event) == event.status # "cancelled"

(* variant: partial overlap instead of containment *)
ContainedPartly(event, from, to) ==
    /\ NotCancelled(event)
    /\ event.start_time # Undefined
    /\ event.end_time # Undefined
    /\ event.start_time <= to
    /\ event.end_time >= from

(* variant: no presence checks, a missing timestamp read as 0 *)
ContainedDefaulting(event, from, to) ==
    /\ NotCancelled(event)
    /\ StampOrZero(event.start_time) >= from
    /\ StampOrZero(event.end_time) <= to

(* first operand of the filter callback: the record's own interval lies in
   the window *)
Contained(event, from, to) ==
    /\ NotCancelled(event)
    /\ event.start_time # Undefined
    /\ event.end_time # Undefined
    /\ event.start_time >= from
    /\ event.end_time <= to

(* variant: the recurrence engine is not consulted *)
KeepEventContainedOnly(event, from, to) ==
    [keep |-> Contained(event, from, to), escaped |-> FALSE, log |-> <<>>]

(* variant: a branch on the presence of a rule instead of || *)
KeepEventBranching(event, from, to) ==
    IF event.has_recurrence /\ event.recurrence # <<>>
    THEN IF NotCancelled(event)
         THEN LET r == isRecurrenceInRange(
                           RuleOrEmpty(event),
                           [startTime |-> StampOrZero(event.start_time),
                            endTime   |-> StampOrZero(event.end_time)],
                           [startTime |-> from, endTime |-> to])
              IN  [keep |-> r.ret, escaped |-> r.escaped, log |-> r.log]
         ELSE [keep |-> FALSE, escaped |-> FALSE, log |-> <<>>]
    ELSE [keep |-> Contained(event, from, to), escaped |-> FALSE, log |-> <<>>]

(* the filter callback: [keep, escaped, log].  The second operand of || is
   evaluated only when the first is false *)
KeepEvent(event, from, to) ==
    IF Contained(event, from, to)
    THEN [keep |-> TRUE, escaped |-> FALSE, log |-> <<>>]
    ELSE IF RecurrenceNotEmptyString(event) /\ NotCancelled(event)
         THEN LET r == isRecurrenceInRange(
                           RuleOrEmpty(event),
                           [startTime |-> StampOrZero(event.start_time),
                            endTime   |-> StampOrZero(event.end_time)],
                           [startTime |-> from, endTime |-> to])
              IN  [keep |-> r.ret, escaped |-> r.escaped, log |-> r.log]
         ELSE [keep |-> FALSE, escaped |-> FALSE, log |-> <<>>]

(* variant: kept events are collected in reverse order *)
RECURSIVE FilterFromReversed(_, _, _, _, _)
FilterFromReversed(all, i, from, to, acc) ==
    IF i > Len(all) \/ acc.threw
    THEN acc
    ELSE LET k == KeepEvent(all[i], from, to)
         IN  FilterFromReversed(all, i + 1, from, to,
                        [events |-> IF k.keep /\ ~k.escaped
                                    THEN <<all[i]>> \o acc.events
                                    ELSE acc.events,
                         log    |-> acc.log \o k.log,
                         threw  |-> k.escaped])

(* allEvents.filter(callback): the events kept so far, the diagnostics
   emitted, and whether an exception left the callback (which ends the pass) *)
RECURSIVE FilterFrom(_, _, _, _, _)
FilterFrom(all, i, from, to, acc) ==
    IF i > Len(all) \/ acc.threw
    THEN acc
    ELSE LET k == KeepEvent(all[i], from, to)
         IN  FilterFrom(all, i + 1, from, to,
                        [events |-> IF k.keep /\ ~k.escaped
                                    THEN Append(acc.events, all[i])
                                    ELSE acc.events,
                         log    |-> acc.log \o k.log,
                         threw  |-> k.escaped])

FilterEvents(all, from, to) ==
    FilterFrom(all, 1, from, to, [events |-> <<>>, log |-> <<>>, threw |-> FALSE])

ReceivedMessage == "Received response:"

(* toolHandlers.list_events after argument parsing: [kind, events, count, log] *)
list_events(how, all, from, to) ==
    CASE how = "rejected" ->
            [kind |-> "threw", events |-> <<>>, count |-> 0, log |-> <<>>]
      [] how = "null" ->
            [kind |-> "failed", events |-> <<>>, count |-> 0,
             log |-> <<ReceivedMessage>>]
      [] how = "error_code" ->
            [kind |-> "failed", events |-> <<>>, count |-> 0,
             log |-> <<ReceivedMessage>>]
      [] OTHER ->
            LET f == FilterEvents(all, from, to)
            IN  IF f.threw
                THEN [kind |-> "threw", events |-> <<>>, count |-> 0,
                      log |-> <<ReceivedMessage>> \o f.log]
                ELSE [kind   |-> IF Len(f.events) > 0 THEN "found" ELSE "empty",
                      events |-> f.events,
                      count  |-> Len(f.events),
                      log    |-> <<ReceivedMessage>> \o f.log]

----------------------------------------------------------------------------
(* Specification of the engine alone: one call on arbitrary inputs *)

NoOutcome ==
    [ret |-> FALSE, escaped |-> FALSE, parsed |-> FALSE, asked |-> FALSE,
     normalized |-> <<>>, generated |-> 0]

NoResponse == [kind |-> "none", events |-> <<>>, count |-> 0]

NoRequest == [tool |-> "none"]

NoReply == [kind |-> "none", text |-> ""]

(* the variables of the tool calls and of the startup, at rest *)
ServerAtRest ==
    /\ request = NoRequest
    /\ calls = <<>>
    /\ reply = NoReply
    /\ env = {}
    /\ stage = "none"
    /\ exitCode = Undefined

Init ==
    /\ phase = "ready"
    /\ recurrenceRule \in RuleTexts
    /\ eventTime \in TimeRanges
    /\ checkRange \in TimeRanges
    /\ outcome = NoOutcome
    /\ console = <<>>
    /\ items = <<>>
    /\ upstream = "ok"
    /\ startUnix = 0
    /\ endUnix = 0
    /\ response = NoResponse
    /\ ServerAtRest

CallIsRecurrenceInRange ==
    /\ phase = "ready"
    /\ LET r == isRecurrenceInRange(recurrenceRule, eventTime, checkRange)
       IN  /\ outcome' = [ret |-> r.ret, escaped |-> r.escaped,
                           parsed |-> r.parsed, asked |-> r.asked,
                           normalized |-> r.normalized, generated |-> r.generated]
           /\ console' = console \o r.log
    /\ phase' = "done"
    /\ UNCHANGED <<recurrenceRule, eventTime, checkRange,
                   items, upstream, startUnix, endUnix, response,
                   request, calls, reply, env, stage, exitCode>>

Next == CallIsRecurrenceInRange

Spec == Init /\ [][Next]_vars

----------------------------------------------------------------------------
(* Specification of the list_events handler: one request against one
   upstream answer *)

(* the records of the batches of more than one event *)
BatchRecords ==
    { e \in EventRecords : e.start_time = 0 /\ e.end_time \in {0, MaxStamp} }

Batches(pool, n) == UNION { [1 .. k -> pool] : k \in 0 .. n }

FilterInit ==
    /\ phase = "ready"
    /\ recurrenceRule = <<>>
    /\ eventTime = [startTime |-> 0, endTime |-> 0]
    /\ checkRange = [startTime |-> 0, endTime |-> 0]
    /\ outcome = NoOutcome
    /\ console = <<>>
    /\ startUnix \in Stamps
    /\ endUnix \in Stamps
    /\ \/ upstream = "ok" /\ items \in Batches(EventRecords, 1)
       \/ upstream = "ok" /\ items \in Batches(BatchRecords, MaxBatch)
       \/ upstream \in {"null", "error_code", "rejected"} /\ items = <<>>
    /\ response = NoResponse
    /\ ServerAtRest

ListEvents ==
    /\ phase = "ready"
    /\ LET r == list_events(upstream, items, startUnix, endUnix)
       IN  /\ response' = [kind |-> r.kind, events |-> r.events, count |-> r.count]
           /\ console' = console \o r.log
    /\ phase' = "done"
    /\ UNCHANGED <<recurrenceRule, eventTime, checkRange, outcome,
                   items, upstream, startUnix, endUnix,
                   request, calls, reply, env, stage, exitCode>>

FilterNext == ListEvents

FilterSpec == FilterInit /\ [][FilterNext]_vars

----------------------------------------------------------------------------
(* refreshAccessToken and the tool handlers.  A call ends either with a value
   handed back or with an exception leaving it. *)

MaxCode == 2
MaxAttendees == 2

Returned(t) == [kind |-> "returned", text |-> t]

Text(t) == [kind |-> "text", text |-> t]

Threw(m) == [kind |-> "threw", text |-> m]

(* how axios.post ends: a response, an axios error, or any other exception *)
TransportOutcomes == {"ok", "axios_error", "other_error"}

(* data.code of the token endpoint: absent, 0, or an error code *)
ResponseCodes == {Undefined} \cup (0 .. MaxCode)

(* variant: the response code is not looked at *)
refreshTryUnchecked(transport, code, described) ==
    IF transport # "ok"
    THEN [threw |-> TRUE, axios |-> transport = "axios_error",
          message |-> "error.message"]
    ELSE [threw |-> FALSE, axios |-> FALSE, message |-> ""]

(* the try block of refreshAccessToken: the exception it raises, if any *)
refreshTry(transport, code, described) ==
    IF transport # "ok"
    THEN [threw |-> TRUE, axios |-> transport = "axios_error",
          message |-> "error.message"]
    ELSE IF code # 0
         THEN [threw |-> TRUE, axios |-> FALSE,
               message |-> IF described THEN "data.error_description"
                           ELSE "Token refresh failed with code"]
         ELSE [threw |-> FALSE, axios |-> FALSE, message |-> ""]

(* refreshAccessToken: the catch block wraps an axios error and rethrows
   anything else *)
refreshAccessToken(transport, code, described) ==
    LET tried == refreshTry(transport, code, described)
    IN  IF tried.threw
        THEN IF tried.axios
             THEN Threw("Failed to refresh token:")
             ELSE Threw(tried.message)
        ELSE Returned("access_token")

(* how a call of the Lark client ends: a response with code 0, no response
   object, a response with another code, or a rejected promise *)
UpstreamOutcomes == {"ok", "null", "error_code", "rejected"}

(* what a handler did: the content it handed back and the calls it made *)
Handled(content, made) ==
    [kind |-> content.kind, text |-> content.text, calls |-> made]

(* toolHandlers.send_message_to_user after argument parsing *)
send_message_to_user(how) ==
    LET made == <<"im.message.create">>
    IN  CASE how = "rejected"   -> Handled(Text("Error sending message:"), made)
          [] how = "null"       -> Handled(Text("Failed to send message to Lark"), made)
          [] how = "error_code" -> Handled(Text("Failed to send message:"), made)
          [] OTHER              -> Handled(Text("Message sent successfully!"), made)

(* create_event reaches the call that adds the creator as attendee *)
AddsCreator(create, has_event_id) ==
    create = "ok" /\ has_event_id

(* toolHandlers.create_event after argument parsing: the create call, then
   the call adding the creator, both inside one try block *)
create_event(create, has_event_id, follow) ==
    LET first  == <<"calendarEvent.create">>
        second == Append(first, "calendarEventAttendee.create")
    IN  CASE create = "rejected" ->
                Handled(Text("Error creating event:"), first)
          [] create = "null" ->
                Handled(Text("Failed to create event in Lark calendar"), first)
          [] create = "error_code" ->
                Handled(Text("Failed to create event:"), first)
          [] OTHER ->
                IF AddsCreator(create, has_event_id)
                THEN IF follow = "rejected"
                     THEN Handled(Text("Error creating event:"), second)
                     ELSE Handled(Text("created successfully!"), second)
                ELSE Handled(Text("created successfully!"), first)

AttendeeTypes == {"user", "chat", "resource", "third_party"}

IdFields == {"user_id", "chat_id", "resource_id", "third_party_email"}

(* an attendee of the request: its type and the one identifier field it
   carries, if any ("none"), with that field's value ("" or a real id) *)
Attendees ==
    { a \in [type : AttendeeTypes, field : {"none"} \cup IdFields,
             value : {"", "id"}] :
        a.field = "none" => a.value = "" }

(* attendee[name] is truthy *)
Given(attendee, name) ==
    attendee.field = name /\ attendee.value # ""

(* variant: only attendees of type user are validated *)
TransformFailsUserOnly(attendee) ==
    attendee.type = "user" /\ ~Given(attendee, "user_id")

(* the callback of attendees.map throws on this attendee *)
TransformFails(attendee) ==
    CASE attendee.type = "user"        -> ~Given(attendee, "user_id")
      [] attendee.type = "chat"        -> ~Given(attendee, "chat_id")
      [] attendee.type = "resource"    -> ~Given(attendee, "resource_id")
      [] attendee.type = "third_party" -> ~Given(attendee, "third_party_email")
      [] OTHER                         -> FALSE

(* toolHandlers.add_attendees after argument parsing: attendees.map ends at
   the first attendee its callback throws on, before the request is built *)
add_attendees(attendees, how) ==
    LET made == <<"calendarEventAttendee.create">>
    IN  IF \E i \in 1 .. Len(attendees) : TransformFails(attendees[i])
        THEN Handled(Text("Error adding attendees:"), <<>>)
        ELSE CASE how = "rejected"   -> Handled(Text("Error adding attendees:"), made)
               [] how = "null"       -> Handled(Text("Failed to add attendees to event"), made)
               [] how = "error_code" -> Handled(Text("Failed to add attendees:"), made)
               [] OTHER              -> Handled(Text("Successfully added"), made)

(* how the Supabase query ends: rows, no rows, an error object, or a
   rejected promise *)
QueryOutcomes == {"rows", "no_rows", "error", "rejected"}

(* toolHandlers.search_user_in_supabase after argument parsing *)
search_user_in_supabase(hasKey, how) ==
    LET made == <<"supabase.from.select.ilike">>
    IN  IF ~hasKey
        THEN Handled(Text("Error: SUPABASE_KEY environment variable is not set."), <<>>)
        ELSE CASE how = "rejected" -> Handled(Text("Error searching users in Supabase:"), made)
               [] how = "error"    -> Handled(Text("Error querying Supabase:"), made)
               [] how = "no_rows"  -> Handled(Text("No users found with name containing"), made)
               [] OTHER            -> Handled(Text("Found"), made)

(* the content toolHandlers.list_events hands back, by how list_events
   ended: it has no try block, an exception leaves it *)
list_events_content(kind, how) ==
    LET made == <<"calendarEvent.list">>
    IN  CASE kind = "threw"  -> Handled(Threw("error"), made)
          [] kind = "failed" ->
                Handled(Text(IF how = "null" THEN "Failed to list events from Lark"
                             ELSE "Failed to list events:"), made)
          [] kind = "found"  -> Handled(Text("Found"), made)
          [] OTHER           -> Handled(Text("No active events found in the given time range"), made)

----------------------------------------------------------------------------
(* Specification of the calls: one call of refreshAccessToken or of one tool
   handler, with schema-valid arguments, against one answer of the services *)

RefreshRequests ==
    [tool : {"refreshAccessToken"}, transport : TransportOutcomes,
     code : ResponseCodes, described : BOOLEAN]

SendMessageRequests ==
    [tool : {"send_message_to_user"}, how : UpstreamOutcomes]

ListEventsRequests ==
    [tool : {"list_events"}, how : {"ok"}, all : Batches(BatchRecords, 1)]
    \cup [tool : {"list_events"}, how : UpstreamOutcomes \ {"ok"}, all : {<<>>}]

CreateEventRequests ==
    [tool : {"create_event"}, create : UpstreamOutcomes,
     has_event_id : BOOLEAN, follow : UpstreamOutcomes]

AddAttendeesRequests ==
    [tool : {"add_attendees"}, attendees : Batches(Attendees, MaxAttendees),
     how : UpstreamOutcomes]

SearchUserRequests ==
    [tool : {"search_user_in_supabase"}, hasKey : BOOLEAN, how : QueryOutcomes]

(* the request is one of the calls above *)
IsRequest(r) ==
    \/ r \in RefreshRequests
    \/ r \in SendMessageRequests
    \/ r \in ListEventsRequests
    \/ r \in CreateEventRequests
    \/ r \in AddAttendeesRequests
    \/ r \in SearchUserRequests

HandlerInit ==
    /\ phase = "ready"
    /\ recurrenceRule = <<>>
    /\ eventTime = [startTime |-> 0, endTime |-> 0]
    /\ checkRange = [startTime |-> 0, endTime |-> 0]
    /\ outcome = NoOutcome
    /\ console = <<>>
    /\ items = <<>>
    /\ upstream = "ok"
    /\ startUnix = 0
    /\ endUnix = MaxStamp
    /\ response = NoResponse
    /\ IsRequest(request)
    /\ calls = <<>>
    /\ reply = NoReply
    /\ env = {}
    /\ stage = "none"
    /\ exitCode = Undefined

(* the call ends: what it handed back and the calls it made are recorded *)
Finish(r, made) ==
    /\ reply' = [kind |-> r.kind, text |-> r.text]
    /\ calls' = calls \o made
    /\ phase' = "done"
    /\ UNCHANGED <<recurrenceRule, eventTime, checkRange, outcome, console,
                   items, upstream, startUnix, endUnix, response,
                   request, env, stage, exitCode>>

CallRefreshAccessToken ==
    /\ phase = "ready"
    /\ request.tool = "refreshAccessToken"
    /\ Finish(refreshAccessToken(request.transport, request.code, request.described),
              <<"axios.post">>)

CallSendMessageToUser ==
    /\ phase = "ready"
    /\ request.tool = "send_message_to_user"
    /\ LET r == send_message_to_user(request.how)
       IN  Finish(r, r.calls)

CallListEvents ==
    /\ phase = "ready"
    /\ request.tool = "list_events"
    /\ LET r == list_events_content(
                    list_events(request.how, request.all, startUnix, endUnix).kind,
                    request.how)
       IN  Finish(r, r.calls)

CallCreateEvent ==
    /\ phase = "ready"
    /\ request.tool = "create_event"
    /\ LET r == create_event(request.create, request.has_event_id, request.follow)
       IN  Finish(r, r.calls)

CallAddAttendees ==
    /\ phase = "ready"
    /\ request.tool = "add_attendees"
    /\ LET r == add_attendees(request.attendees, request.how)
       IN  Finish(r, r.calls)

CallSearchUserInSupabase ==
    /\ phase = "ready"
    /\ request.tool = "search_user_in_supabase"
    /\ LET r == search_user_in_supabase(request.hasKey, request.how)
       IN  Finish(r, r.calls)

HandlerNext ==
    \/ CallRefreshAccessToken
    \/ CallSendMessageToUser
    \/ CallListEvents
    \/ CallCreateEvent
    \/ CallAddAttendees
    \/ CallSearchUserInSupabase

HandlerSpec == HandlerInit /\ [][HandlerNext]_vars

----------------------------------------------------------------------------
(* Specification of the startup: the module is loaded, then main() runs *)

RequiredEnvVars ==
    {"LARK_APP_ID", "LARK_APP_SECRET", "LARK_USER_ID", "LARK_CALENDAR_ID",
     "LARK_USER_ACCESS_TOKEN", "SUPABASE_KEY", "SUPABASE_URL"}

(* requiredEnvVars.filter(varName => !process.env[varName]) *)
missingVars(e) == RequiredEnvVars \ e

(* the variables handed to createClient while the module is loaded *)
SupabaseVars == {"SUPABASE_URL", "SUPABASE_KEY"}

ExitFailure == 1

StartupInit ==
    /\ phase = "ready"
    /\ recurrenceRule = <<>>
    /\ eventTime = [startTime |-> 0, endTime |-> 0]
    /\ checkRange = [startTime |-> 0, endTime |-> 0]
    /\ outcome = NoOutcome
    /\ console = <<>>
    /\ items = <<>>
    /\ upstream = "ok"
    /\ startUnix = 0
    /\ endUnix = 0
    /\ response = NoResponse
    /\ request = NoRequest
    /\ calls = <<>>
    /\ reply = NoReply
    /\ env \in SUBSET RequiredEnvVars
    /\ stage = "loading"
    /\ exitCode = Undefined

(* the process moves on, or ends with the given code *)
Proceed(to, log, made) ==
    /\ stage' = to
    /\ exitCode' = IF to = "exited" THEN ExitFailure ELSE exitCode
    /\ console' = console \o log
    /\ calls' = calls \o made
    /\ UNCHANGED <<phase, recurrenceRule, eventTime, checkRange, outcome,
                   items, upstream, startUnix, endUnix, response,
                   request, reply, env>>

(* the top-level statements run through and main() is called *)
LoadModule ==
    /\ stage = "loading"
    /\ Proceed("main", <<>>, <<>>)

(* createClient is handed an undefined url or key and throws: the exception
   is uncaught and ends the process with the failure code *)
LoadModuleThrows ==
    /\ stage = "loading"
    /\ ~(SupabaseVars \subseteq env)
    /\ Proceed("exited", <<>>, <<>>)

(* variant: missing variables are reported and the startup goes on *)
CheckEnvLogsOnly ==
    /\ stage = "main"
    /\ IF missingVars(env) # {}
       THEN Proceed("checked", <<"Missing required environment variables:">>, <<>>)
       ELSE Proceed("checked", <<"Starting server with env vars:">>, <<>>)

(* main(): the check of the required environment variables *)
CheckEnv ==
    /\ stage = "main"
    /\ IF missingVars(env) # {}
       THEN Proceed("exited", <<"Missing required environment variables:">>, <<>>)
       ELSE Proceed("checked", <<"Starting server with env vars:">>, <<>>)

(* main(): the transport is created and server.connect resolves *)
ConnectResolves ==
    /\ stage = "checked"
    /\ Proceed("running",
               <<"Created transport", "Connected to transport",
                 "Lark MCP Server running on stdio">>,
               <<"server.connect">>)

(* main(): server.connect rejects, the catch block exits *)
ConnectRejects ==
    /\ stage = "checked"
    /\ Proceed("exited", <<"Created transport", "Startup error:">>,
               <<"server.connect">>)

StartupNext ==
    \/ LoadModule
    \/ LoadModuleThrows
    \/ CheckEnv
    \/ ConnectResolves
    \/ ConnectRejects

StartupSpec == StartupInit /\ [][StartupNext]_vars

(* the runtime runs the startup code to its end *)
StartupFairSpec == StartupSpec /\ WF_vars(StartupNext)

----------------------------------------------------------------------------
(* What the properties are stated against: the rule read in seconds,
   independently of the Date arithmetic of the engine *)

(* the parts of a rule text, the prefix left aside *)
RuleBody(text) == IF startsWith(text, Prefix) THEN Tail(text) ELSE text

(* the text conforms to the rule grammar *)
RuleConforms(text) ==
    /\ RuleBody(text) # <<>>
    /\ \A i \in 1 .. Len(RuleBody(text)) : RuleBody(text)[i] \in KnownParts

(* the text is not empty and does not conform: evaluating it fails *)
RuleFails(text) == text # <<>> /\ ~RuleConforms(text)

(* the start instants, up to the horizon of the model, of the occurrences of
   a rule anchored at anchor *)
RuleStarts(text, anchor) ==
    IF ~RuleConforms(text) THEN {}
    ELSE LET step  == Param(RuleBody(text), "INTERVAL", 1) * Day
             count == Param(RuleBody(text), "COUNT", NoLimit)
             until == Param(RuleBody(text), "UNTIL", NoLimit)
         IN  { t \in anchor .. (MaxTime + MaxStamp) :
                 /\ (t - anchor) % step = 0
                 /\ count = NoLimit \/ (t - anchor) \div step < count
                 /\ until = NoLimit \/ t <= until }

Duration(evt) == evt.endTime - evt.startTime

----------------------------------------------------------------------------
(* Properties of isRecurrenceInRange, checked under Spec *)

(* C1: the call returns true iff some occurrence start t of the rule with
   checkRange.startTime <= t <= checkRange.endTime satisfies one of the three
   overlap clauses with occEnd = t + duration; it returns false when there is
   no such occurrence (empty sequence, or a rule that cannot be evaluated). *)
C1_TrueIffGeneratedOccurrenceOverlaps ==
    phase = "done" =>
        outcome.ret =
            \E t \in RuleStarts(recurrenceRule, eventTime.startTime) :
                LET occEnd == t + Duration(eventTime)
                IN  /\ checkRange.startTime <= t
                    /\ t <= checkRange.endTime
                    /\ \/ checkRange.startTime <= t /\ t <= checkRange.endTime
                       \/ checkRange.startTime <= occEnd /\ occEnd <= checkRange.endTime
                       \/ t <= checkRange.startTime /\ occEnd >= checkRange.endTime

(* a later occurrence than the anchor, lying exactly on the window start,
   made the call return true *)
C1_Witness ==
    /\ phase = "done"
    /\ outcome.ret
    /\ eventTime.startTime < checkRange.startTime
    /\ checkRange.startTime \in RuleStarts(recurrenceRule, eventTime.startTime)
    /\ checkRange.endTime = checkRange.startTime

(* C2: if some occurrence of the rule starts before checkRange.startTime and
   its end (start + duration) lies inside the window, the call returns true. *)
C2_EndInWindowGivesTrue ==
    phase = "done" =>
        ((\E t \in RuleStarts(recurrenceRule, eventTime.startTime) :
            /\ eventTime.startTime <= eventTime.endTime
            /\ t < checkRange.startTime
            /\ checkRange.startTime <= t + Duration(eventTime)
            /\ t + Duration(eventTime) <= checkRange.endTime)
         => outcome.ret)

(* C3: if some occurrence of the rule starts before checkRange.startTime and
   ends after checkRange.endTime (it spans the window), the call returns
   true. *)
C3_SpanningGivesTrue ==
    phase = "done" =>
        ((\E t \in RuleStarts(recurrenceRule, eventTime.startTime) :
            /\ checkRange.startTime <= checkRange.endTime
            /\ t < checkRange.startTime
            /\ t + Duration(eventTime) > checkRange.endTime)
         => outcome.ret)

(* C8: no exception leaves the call and the result is a boolean; when the
   rule cannot be evaluated the result is false and one diagnostic was
   written to the error channel. *)
C8_NoExceptionEscapes ==
    phase = "done" =>
        /\ ~outcome.escaped
        /\ outcome.ret \in BOOLEAN
        /\ RuleFails(recurrenceRule) =>
               /\ outcome.ret = FALSE
               /\ console = <<ErrorMessage>>

(* a call on a rule outside the grammar has returned and left its diagnostic *)
C8_Witness ==
    /\ phase = "done"
    /\ RuleFails(recurrenceRule)
    /\ outcome.parsed
    /\ console = <<ErrorMessage>>

(* C10: on an empty rule the call returns false without parsing and without
   generating anything (and without a diagnostic), whatever eventTime and
   checkRange are. *)
C10_EmptyRuleGivesFalse ==
    (phase = "done" /\ recurrenceRule = <<>>) =>
        /\ outcome.ret = FALSE
        /\ ~outcome.parsed
        /\ ~outcome.asked
        /\ console = <<>>

(* a call on the empty rule has returned, for an event lying in the window *)
C10_Witness ==
    /\ phase = "done"
    /\ recurrenceRule = <<>>
    /\ outcome.ret = FALSE
    /\ checkRange.startTime <= eventTime.startTime
    /\ eventTime.startTime < eventTime.endTime
    /\ eventTime.endTime <= checkRange.endTime

(* C11: if some occurrence of the rule has its end (start + duration)
   exactly on checkRange.endTime, the call returns true, also when the
   occurrence starts before checkRange.startTime. *)
C11_EndOnWindowEndGivesTrue ==
    phase = "done" =>
        ((\E t \in RuleStarts(recurrenceRule, eventTime.startTime) :
            /\ eventTime.startTime <= eventTime.endTime
            /\ checkRange.startTime <= checkRange.endTime
            /\ t + Duration(eventTime) = checkRange.endTime)
         => outcome.ret)

(* C12 as stated: for every window, an occurrence starting exactly on
   checkRange.startTime or exactly on checkRange.endTime is generated and
   the call returns true. *)
C12_StartOnBoundGivesTrue ==
    phase = "done" =>
        ((\E t \in RuleStarts(recurrenceRule, eventTime.startTime) :
            t = checkRange.startTime \/ t = checkRange.endTime)
         => (outcome.ret /\ outcome.generated >= 1))

(* C12 amended: for every window with startTime <= endTime, an occurrence
   starting exactly on checkRange.startTime or exactly on checkRange.endTime
   is generated and the call returns true. *)
C12_StartOnBoundOfProperWindowGivesTrue ==
    (phase = "done" /\ checkRange.startTime <= checkRange.endTime) =>
        ((\E t \in RuleStarts(recurrenceRule, eventTime.startTime) :
            t = checkRange.startTime \/ t = checkRange.endTime)
         => (outcome.ret /\ outcome.generated >= 1))

(* the only occurrence generated is the one lying exactly on the window end *)
C12_Witness ==
    /\ phase = "done"
    /\ checkRange.startTime < checkRange.endTime
    /\ checkRange.endTime \in RuleStarts(recurrenceRule, eventTime.startTime)
    /\ outcome.generated = 1
    /\ outcome.ret

(* C13: if every occurrence of the rule lies entirely outside the window
   (start + duration < checkRange.startTime or start > checkRange.endTime),
   the call returns false. *)
C13_AllOutsideGivesFalse ==
    phase = "done" =>
        ((\A t \in RuleStarts(recurrenceRule, eventTime.startTime) :
            \/ t + Duration(eventTime) < checkRange.startTime
            \/ t > checkRange.endTime)
         => outcome.ret = FALSE)

(* the COUNT bound of a rule text, NoLimit when it has none *)
CountOf(text) == Param(RuleBody(text), "COUNT", NoLimit)

(* the start of the k-th occurrence (k = 1, 2, ...) of a rule text anchored
   at anchor *)
KthStart(text, anchor, k) ==
    anchor + (k - 1) * Param(RuleBody(text), "INTERVAL", 1) * Day

(* C14: for a rule with a COUNT bound, if the start of the k-th occurrence
   (1 <= k <= COUNT) lies inside the window, the call returns true. *)
C14_CountedOccurrenceInWindowGivesTrue ==
    (phase = "done" /\ RuleConforms(recurrenceRule)
                    /\ CountOf(recurrenceRule) # NoLimit) =>
        \A k \in 1 .. CountOf(recurrenceRule) :
            (/\ checkRange.startTime <= KthStart(recurrenceRule, eventTime.startTime, k)
             /\ KthStart(recurrenceRule, eventTime.startTime, k) <= checkRange.endTime)
            => outcome.ret

(* the last occurrence a COUNT bound permits, and no earlier one, lies in
   the window and the call returned true *)
C14_Witness ==
    /\ phase = "done"
    /\ RuleConforms(recurrenceRule)
    /\ CountOf(recurrenceRule) = 2
    /\ eventTime.startTime < checkRange.startTime
    /\ checkRange.startTime <= KthStart(recurrenceRule, eventTime.startTime, 2)
    /\ KthStart(recurrenceRule, eventTime.startTime, 2) <= checkRange.endTime
    /\ outcome.generated = 1
    /\ outcome.ret

(* C15: if the anchor eventTime.startTime is later than checkRange.endTime,
   nothing is generated and the call returns false, for every rule and
   duration. *)
C15_AnchorAfterWindowGivesFalse ==
    (phase = "done" /\ eventTime.startTime > checkRange.endTime) =>
        /\ outcome.ret = FALSE
        /\ outcome.generated = 0

(* a rule that can be evaluated was asked for a proper window lying
   entirely before the anchor *)
C15_Witness ==
    /\ phase = "done"
    /\ checkRange.startTime < checkRange.endTime
    /\ checkRange.endTime < eventTime.startTime
    /\ eventTime.startTime < eventTime.endTime
    /\ outcome.asked
    /\ outcome.ret = FALSE

(* the rule text carries a COUNT or an UNTIL limit *)
Limited(text) ==
    \/ Param(RuleBody(text), "COUNT", NoLimit) # NoLimit
    \/ Param(RuleBody(text), "UNTIL", NoLimit) # NoLimit

(* C16: if the rule's COUNT or UNTIL limit is exhausted before
   checkRange.startTime (every permitted occurrence starts before the window
   start), nothing is generated and the call returns false, even when the
   last permitted occurrence extends into the window. *)
C16_LimitExhaustedGivesFalse ==
    (phase = "done" /\ RuleConforms(recurrenceRule) /\ Limited(recurrenceRule)
                    /\ \A t \in RuleStarts(recurrenceRule, eventTime.startTime) :
                           t < checkRange.startTime) =>
        /\ outcome.ret = FALSE
        /\ outcome.generated = 0

(* the last permitted occurrence starts before the window and ends inside
   it, and the call returned false *)
C16_Witness ==
    /\ phase = "done"
    /\ RuleConforms(recurrenceRule) /\ Limited(recurrenceRule)
    /\ checkRange.startTime <= checkRange.endTime
    /\ RuleStarts(recurrenceRule, eventTime.startTime) # {}
    /\ \A t \in RuleStarts(recurrenceRule, eventTime.startTime) :
          t < checkRange.startTime
    /\ \E t \in RuleStarts(recurrenceRule, eventTime.startTime) :
          /\ t + Duration(eventTime) >= checkRange.startTime
          /\ t + Duration(eventTime) <= checkRange.endTime
    /\ outcome.asked
    /\ outcome.ret = FALSE

(* C17: when eventTime.endTime < eventTime.startTime the call returns
   false, for every rule and window. *)
C17_DegenerateEventGivesFalse ==
    (phase = "done" /\ eventTime.endTime < eventTime.startTime) =>
        outcome.ret = FALSE

(* C18: when checkRange.endTime < checkRange.startTime the call returns
   false (nothing is generated), for every rule and event interval. *)
C18_DegenerateWindowGivesFalse ==
    (phase = "done" /\ checkRange.endTime < checkRange.startTime) =>
        /\ outcome.ret = FALSE
        /\ outcome.generated = 0

(* the generator was asked for a window whose end precedes its start, with
   an occurrence of the rule lying between the two bounds *)
C18_Witness ==
    /\ phase = "done"
    /\ checkRange.endTime < checkRange.startTime
    /\ outcome.asked
    /\ \E t \in RuleStarts(recurrenceRule, eventTime.startTime) :
          /\ checkRange.endTime <= t
          /\ t + Duration(eventTime) <= checkRange.startTime
          /\ t < t + Duration(eventTime)
    /\ outcome.ret = FALSE

(* C20: the text handed to the parser starts with "RRULE:"; it is the raw
   text itself when that already starts with "RRULE:", and otherwise the raw
   text with "RRULE:" put in front and nothing else changed; normalizing it
   again changes nothing. *)
C20_NormalizationAddsPrefixOnce ==
    (phase = "done" /\ outcome.parsed) =>
        /\ startsWith(outcome.normalized, Prefix)
        /\ startsWith(recurrenceRule, Prefix) => outcome.normalized = recurrenceRule
        /\ ~startsWith(recurrenceRule, Prefix) =>
               /\ Len(outcome.normalized) = Len(recurrenceRule) + 1
               /\ Tail(outcome.normalized) = recurrenceRule
        /\ rruleString(outcome.normalized) = outcome.normalized

(* a text that already carried the prefix went to the parser unchanged *)
C20_Witness ==
    /\ phase = "done"
    /\ outcome.parsed
    /\ startsWith(recurrenceRule, Prefix)
    /\ Len(recurrenceRule) > 1
    /\ outcome.normalized = recurrenceRule
    /\ outcome.asked

----------------------------------------------------------------------------
(* Properties of the list_events filter, checked under FilterSpec *)

(* the handler answered with a (possibly empty) list of events *)
Answered == phase = "done" /\ response.kind \in {"found", "empty"}

(* the record is among the events the handler returned *)
InResult(event) == \E j \in 1 .. Len(response.events) : response.events[j] = event

(* the record carries a non-empty repetition rule *)
HasRule(event) == event.has_recurrence /\ event.recurrence # <<>>

(* both timestamps present and the record's own interval inside the window *)
OwnIntervalInWindow(event) ==
    /\ event.start_time # Undefined
    /\ event.end_time # Undefined
    /\ event.start_time >= startUnix
    /\ event.end_time <= endUnix

(* what the engine returns for the record against the requested window *)
EngineSays(event) ==
    isRecurrenceInRange(RuleOrEmpty(event),
                        [startTime |-> StampOrZero(event.start_time),
                         endTime   |-> StampOrZero(event.end_time)],
                        [startTime |-> startUnix, endTime |-> endUnix]).ret

(* C4 as stated: a non-cancelled record with a non-empty rule is included
   iff the engine returns true for it. *)
C4_RecurringIncludedIffEngine ==
    Answered =>
        \A i \in 1 .. Len(items) :
            (items[i].status # "cancelled" /\ HasRule(items[i]))
                => (InResult(items[i]) <=> EngineSays(items[i]))

(* C4 amended: a non-cancelled record with a non-empty rule is included iff
   the engine returns true for it or its own interval is fully contained in
   the window; it is not included when neither holds. *)
C4_RecurringIncludedIffEngineOrContained ==
    Answered =>
        \A i \in 1 .. Len(items) :
            (items[i].status # "cancelled" /\ HasRule(items[i]))
                => (InResult(items[i]) <=>
                        (EngineSays(items[i]) \/ OwnIntervalInWindow(items[i])))

(* a recurring record that only partly overlaps the window was included on
   the engine's answer, another one was left out *)
C4_Witness ==
    /\ Answered
    /\ \E i \in 1 .. Len(items) :
          /\ items[i].status # "cancelled" /\ HasRule(items[i])
          /\ ~OwnIntervalInWindow(items[i])
          /\ EngineSays(items[i])
          /\ InResult(items[i])
    /\ \E i \in 1 .. Len(items) :
          /\ items[i].status # "cancelled" /\ HasRule(items[i])
          /\ RuleConforms(items[i].recurrence)
          /\ ~EngineSays(items[i])
          /\ ~InResult(items[i])

(* C5 as stated: a record whose rule cannot be evaluated is absent from the
   result, for every such record and window. *)
C5_FailingRuleAbsent ==
    Answered =>
        \A i \in 1 .. Len(items) :
            (items[i].has_recurrence /\ RuleFails(items[i].recurrence))
                => ~InResult(items[i])

(* C5 amended: a record whose rule cannot be evaluated is absent from the
   result unless it is not cancelled and its own interval is fully contained
   in the window; the failed evaluation itself never includes it. *)
C5_FailingRuleAbsentUnlessContained ==
    Answered =>
        \A i \in 1 .. Len(items) :
            (items[i].has_recurrence /\ RuleFails(items[i].recurrence))
                => (InResult(items[i]) <=>
                        (items[i].status # "cancelled" /\ OwnIntervalInWindow(items[i])))

(* a record with a rule outside the grammar was evaluated (the diagnostic
   is on the console) and left out of the result *)
C5_Witness ==
    /\ Answered
    /\ \E i \in 1 .. Len(items) :
          /\ items[i].has_recurrence /\ RuleFails(items[i].recurrence)
          /\ items[i].status # "cancelled"
          /\ ~InResult(items[i])
    /\ \E j \in 1 .. Len(console) : console[j] = ErrorMessage

(* C6: a non-cancelled record without a rule (empty or absent) is included
   iff both timestamps are present and start >= windowStart and
   end <= windowEnd; partial overlap is not enough. *)
C6_NonRecurringIncludedIffContained ==
    Answered =>
        \A i \in 1 .. Len(items) :
            (items[i].status # "cancelled" /\ ~HasRule(items[i]))
                => (InResult(items[i]) <=> OwnIntervalInWindow(items[i]))

(* a record without the recurrence field that starts before the window and
   ends inside it was left out *)
C6_Witness ==
    /\ Answered
    /\ \E i \in 1 .. Len(items) :
          /\ items[i].status # "cancelled"
          /\ ~items[i].has_recurrence
          /\ items[i].start_time # Undefined
          /\ items[i].start_time < startUnix
          /\ items[i].end_time >= startUnix
          /\ items[i].end_time <= endUnix
          /\ ~InResult(items[i])

(* C7: a cancelled record is never in the result, whatever its interval,
   its rule and the window. *)
C7_CancelledExcluded ==
    Answered =>
        \A i \in 1 .. Len(items) :
            items[i].status = "cancelled" => ~InResult(items[i])

(* a cancelled record lying inside the window, with a rule that has an
   occurrence in the window, was left out *)
C7_Witness ==
    /\ Answered
    /\ \E i \in 1 .. Len(items) :
          /\ items[i].status = "cancelled"
          /\ OwnIntervalInWindow(items[i])
          /\ HasRule(items[i])
          /\ EngineSays(items[i])
          /\ ~InResult(items[i])

(* the batch without its i-th record *)
WithoutRecord(all, i) == SubSeq(all, 1, i - 1) \o SubSeq(all, i + 1, Len(all))

(* the i-th record of the batch is one whose evaluation fails: the filter
   hands it to the engine and its rule cannot be evaluated *)
EvaluationFails(event) ==
    /\ event.status # "cancelled"
    /\ ~OwnIntervalInWindow(event)
    /\ event.has_recurrence
    /\ RuleFails(event.recurrence)

(* C9: when the upstream call succeeded the filter returns a result, and for
   every record whose evaluation fails, the result restricted to the other
   records is the result of the same pass over the batch without that
   record. *)
C9_FailureDoesNotAbortBatch ==
    (phase = "done" /\ upstream = "ok") =>
        /\ response.kind \in {"found", "empty"}
        /\ \A i \in 1 .. Len(items) :
              EvaluationFails(items[i]) =>
                  LET rest == FilterEvents(WithoutRecord(items, i), startUnix, endUnix)
                  IN  /\ ~rest.threw
                      /\ response.events = rest.events

(* the first record of a batch failed in the engine and the record after it
   was still examined and included *)
C9_Witness ==
    /\ Answered
    /\ Len(items) >= 2
    /\ EvaluationFails(items[1])
    /\ ~EvaluationFails(items[2])
    /\ InResult(items[2])
    /\ \E j \in 1 .. Len(console) : console[j] = ErrorMessage

----------------------------------------------------------------------------
(* Further properties of isRecurrenceInRange, checked under Spec *)

(* C22: the call returns true iff the sequence the generator returned for
   the window is not empty; the end-in-window and spanning clauses never
   change the result, and neither does the event's duration (the result is
   the same for every eventTime.endTime). *)
C22_TrueIffSomethingGenerated ==
    phase = "done" =>
        /\ outcome.ret = (outcome.generated > 0)
        /\ outcome.ret =
              \E t \in RuleStarts(recurrenceRule, eventTime.startTime) :
                  checkRange.startTime <= t /\ t <= checkRange.endTime
        /\ \A e \in Times :
              isRecurrenceInRange(recurrenceRule,
                                  [startTime |-> eventTime.startTime, endTime |-> e],
                                  checkRange).ret = outcome.ret

(* an earlier occurrence ends inside the window and spans nothing, nothing
   was generated and the call returned false *)
C22_Witness ==
    /\ phase = "done"
    /\ outcome.asked
    /\ outcome.generated = 0
    /\ outcome.ret = FALSE
    /\ checkRange.startTime <= checkRange.endTime
    /\ \E t \in RuleStarts(recurrenceRule, eventTime.startTime) :
          /\ t < checkRange.startTime
          /\ checkRange.startTime <= t + Duration(eventTime)
          /\ t + Duration(eventTime) <= checkRange.endTime

----------------------------------------------------------------------------
(* Further properties of the list_events filter, checked under FilterSpec *)

(* the console carries a diagnostic of the recurrence engine *)
EngineLogged == \E j \in 1 .. Len(console) : console[j] = ErrorMessage

(* C23: a non-cancelled record with a non-empty rule whose own interval is
   contained in the window is included whatever the engine returns for it,
   and the engine is not consulted for it (a batch of that one record leaves
   no engine diagnostic even when its rule cannot be evaluated). *)
C23_ContainedRecurringIncluded ==
    Answered =>
        \A i \in 1 .. Len(items) :
            (items[i].status # "cancelled" /\ HasRule(items[i])
                                           /\ OwnIntervalInWindow(items[i]))
                => /\ InResult(items[i])
                   /\ Len(items) = 1 => ~EngineLogged

(* a contained record whose rule is outside the grammar was included *)
C23_Witness ==
    /\ Answered
    /\ Len(items) = 1
    /\ items[1].status # "cancelled"
    /\ items[1].has_recurrence /\ RuleFails(items[1].recurrence)
    /\ OwnIntervalInWindow(items[1])
    /\ ~EngineSays(items[1])
    /\ InResult(items[1])

(* the record lacks its start or its end timestamp *)
LacksTimestamp(event) == event.start_time = Undefined \/ event.end_time = Undefined

(* C24: a non-cancelled record lacking a start or an end timestamp is
   included iff it has a non-empty rule and that rule, anchored at 0 when
   the start is missing (at the start otherwise), has an occurrence starting
   inside the window; the containment test never includes it. *)
C24_MissingTimestampOnlyThroughRule ==
    Answered =>
        \A i \in 1 .. Len(items) :
            (items[i].status # "cancelled" /\ LacksTimestamp(items[i]))
                => (InResult(items[i]) <=>
                       /\ HasRule(items[i])
                       /\ \E t \in RuleStarts(items[i].recurrence,
                                               StampOrZero(items[i].start_time)) :
                              startUnix <= t /\ t <= endUnix)

(* a record without a start timestamp was included for a window that does
   not hold 0: its rule, anchored at 0, has a later occurrence there *)
C24_Witness ==
    /\ Answered
    /\ startUnix > 0
    /\ \E i \in 1 .. Len(items) :
          /\ items[i].status # "cancelled"
          /\ items[i].start_time = Undefined
          /\ HasRule(items[i])
          /\ InResult(items[i])

(* s is a subsequence of t, order kept *)
RECURSIVE IsSubsequence(_, _)
IsSubsequence(s, t) ==
    IF s = <<>> THEN TRUE
    ELSE IF t = <<>> THEN FALSE
    ELSE IF Head(s) = Head(t) THEN IsSubsequence(Tail(s), Tail(t))
    ELSE IsSubsequence(s, Tail(t))

(* the record passes the filter *)
Passes(event) ==
    /\ event.status # "cancelled"
    /\ OwnIntervalInWindow(event) \/ EngineSays(event)

(* C25: the returned events are the records of the batch that pass the
   filter, in the order of the batch (a subsequence of it), and the reported
   count is their number. *)
C25_ResultIsOrderedSubsequence ==
    Answered =>
        /\ IsSubsequence(response.events, items)
        /\ response.events = SelectSeq(items, Passes)
        /\ response.count = Len(response.events)

(* two different records of a batch were both returned *)
C25_Witness ==
    /\ Answered
    /\ Len(items) = 2
    /\ items[1] # items[2]
    /\ response.count = 2
    /\ response.events = items

----------------------------------------------------------------------------
(* Properties of refreshAccessToken and of the tool handlers (HandlerSpec) *)

Called(tool) == phase = "done" /\ request.tool = tool

(* C21: refreshAccessToken hands back token information only when the token
   endpoint answered with code 0; for every answer with another code (or
   none) and for every transport failure an exception leaves it and no value
   is handed back. *)
C21_ReturnsOnlyOnCodeZero ==
    Called("refreshAccessToken") =>
        /\ reply.kind \in {"returned", "threw"}
        /\ reply.kind = "returned" <=>
               (request.transport = "ok" /\ request.code = 0)
        /\ (request.transport # "ok" \/ request.code # 0) =>
               reply.kind = "threw"

(* the endpoint answered with an error code and the call threw *)
C21_Witness ==
    /\ Called("refreshAccessToken")
    /\ request.transport = "ok"
    /\ request.code > 0
    /\ reply.kind = "threw"

(* C26: create_event reports success whenever the create call answered with
   code 0, whatever the outcome of the call that adds the creator as
   attendee.  (Stated as the success half of the claim; violated.) *)
C26_CreatedReportsSuccess ==
    (Called("create_event") /\ request.create = "ok") =>
        reply = Text("created successfully!")

(* the attendee of the request lacks the identifier its type requires *)
LacksRequiredId(a) ==
    \/ a.type = "user" /\ ~(a.field = "user_id" /\ a.value # "")
    \/ a.type = "chat" /\ ~(a.field = "chat_id" /\ a.value # "")
    \/ a.type = "resource" /\ ~(a.field = "resource_id" /\ a.value # "")
    \/ a.type = "third_party" /\ ~(a.field = "third_party_email" /\ a.value # "")

SomeAttendeeLacksId ==
    \E i \in 1 .. Len(request.attendees) : LacksRequiredId(request.attendees[i])

(* C27: add_attendees is all-or-nothing on validation: if any attendee lacks
   the identifier required by its type, no request is sent to the calendar
   service and an error text is handed back; the service is called at most
   once, and only when every attendee is valid. *)
C27_ValidationAllOrNothing ==
    Called("add_attendees") =>
        /\ SomeAttendeeLacksId =>
               calls = <<>> /\ reply = Text("Error adding attendees:")
        /\ Len(calls) <= 1
        /\ calls # <<>> =>
               ~SomeAttendeeLacksId /\ calls = <<"calendarEventAttendee.create">>

(* a valid attendee followed by one of type chat without chat_id: nothing
   was sent *)
C27_Witness ==
    /\ Called("add_attendees")
    /\ Len(request.attendees) = 2
    /\ ~LacksRequiredId(request.attendees[1])
    /\ request.attendees[2].type = "chat"
    /\ LacksRequiredId(request.attendees[2])
    /\ calls = <<>>
    /\ reply = Text("Error adding attendees:")

Tools ==
    {"send_message_to_user", "list_events", "create_event", "add_attendees",
     "search_user_in_supabase"}

(* the request's upstream call is rejected or answers with a failure *)
UpstreamFails ==
    CASE request.tool = "create_event" ->
            \/ request.create # "ok"
            \/ request.has_event_id /\ request.follow # "ok"
      [] request.tool = "add_attendees" ->
            ~SomeAttendeeLacksId /\ request.how # "ok"
      [] request.tool = "search_user_in_supabase" ->
            request.hasKey /\ request.how \in {"error", "rejected"}
      [] request.tool \in {"send_message_to_user", "list_events"} ->
            request.how # "ok"
      [] OTHER -> FALSE

(* C28: every tool handler, given schema-valid arguments, turns a rejected
   or failed upstream call into a text answer instead of throwing.
   (Violated by list_events.) *)
C28_FailedUpstreamGivesText ==
    (phase = "done" /\ request.tool \in Tools /\ UpstreamFails) =>
        reply.kind = "text"

----------------------------------------------------------------------------
(* Properties of the startup (StartupFairSpec) *)

Logged(message) == \E i \in 1 .. Len(console) : console[i] = message

Connecting == \E i \in 1 .. Len(calls) : calls[i] = "server.connect"

(* C29: startup ordering: server.connect is called only after the check of
   the required environment variables has passed; if a required variable is
   missing, or connecting fails, the process exits with code 1 and never
   reaches the running state. *)
C29_StartupOrdering ==
    /\ [](Connecting =>
            missingVars(env) = {} /\ Logged("Starting server with env vars:"))
    /\ []((missingVars(env) # {} \/ Logged("Startup error:")) =>
            stage # "running")
    /\ [](stage = "exited" => exitCode = 1)
    /\ (stage = "loading" /\ missingVars(env) # {}) ~>
            (stage = "exited" /\ exitCode = 1)
    /\ [](Logged("Startup error:") => stage = "exited" /\ exitCode = 1)

(* the check found a variable missing and the process exited before any
   connect *)
C29_Witness ==
    /\ stage = "exited"
    /\ exitCode = 1
    /\ missingVars(env) # {}
    /\ Logged("Missing required environment variables:")
    /\ ~Connecting

====
